---- MODULE Spec2Model ----
(***************************************************************************)
(* Multithreaded directory scanner (landrys-file-scanner.cpp): a shared    *)
(* queue of pending directories, a pool of workers that enumerate and feed *)
(* the queue, an active-directory counter for termination detection, and   *)
(* per-worker output buffers flushed to one sink.                          *)
(*                                                                         *)
(* Strings (std::wstring) are sequences of one-character strings.  A queue *)
(* entry, a buffered line and a sink line are represented by the index of  *)
(* the directory entry whose full path they hold; FullPath gives the text. *)
(***************************************************************************)
EXTENDS Integers, Sequences, FiniteSets, TLC

\* ------------------------------------------------------------------ bounds
MaxThreads == 2
RootLen == 126
MaxNameLen == 3
MaxExtLen == 3

\* ------------------------------------------------------- program constants
BytesPerLine == 256
DefaultFlushCount == 5000
KbScale == 1000
NoBufferArg == -1
ReadmeBufferArg == 10000
npos == -1

\* ---------------------------------------------------------------- strings
Lower(c) ==
    CASE c = "A" -> "a"
      [] c = "B" -> "b"
      [] c = "L" -> "l"
      [] c = "T" -> "t"
      [] c = "Z" -> "z"
      [] OTHER -> c

\* the character _wcsnicmp/_wcsicmp compare at 1-based position i: folded to
\* lower case, the terminating NUL past the end
FoldAt(s, i) == IF i <= Len(s) THEN Lower(s[i]) ELSE "NUL"

\* _wcsnicmp(s, p, n) == 0
wcsnicmp_eq(s, p, n) == \A i \in 1..n : FoldAt(s, i) = FoldAt(p, i)

\* _wcsicmp(a, b) == 0
wcsicmp_eq(a, b) ==
    LET m == IF Len(a) > Len(b) THEN Len(a) ELSE Len(b)
    IN  \A i \in 1..(m + 1) : FoldAt(a, i) = FoldAt(b, i)

\* std::wstring::find(p): the 0-based position of the first occurrence, or npos
wstring_find(s, p) ==
    LET hits == {i \in 0..(Len(s) - Len(p)) :
                    \A j \in 1..Len(p) : s[i + j] = p[j]}
    IN  IF hits = {} THEN npos
        ELSE CHOOSE i \in hits : \A k \in hits : i <= k

\* std::wstring::find_last_of(L"."): the 0-based position of the last '.', or npos
find_last_of_dot(s) ==
    LET hits == {i \in 0..(Len(s) - 1) : s[i + 1] = "."}
    IN  IF hits = {} THEN npos
        ELSE CHOOSE i \in hits : \A k \in hits : i >= k

\* std::wstring::substr(pos), pos 0-based
substr(s, pos) == SubSeq(s, pos + 1, Len(s))

\* ------------------------------------------------------------ file system
\* The tree under the root: entry n has a parent (0 is the root), a name, a
\* kind, and what the platform answers for it: opens (FindFirstFileExW
\* succeeds on a directory), converts (WideCharToMultiByte succeeds on a file).
Tree == <<
    [parent |-> 0, cFileName |-> <<"A">>,           isDir |-> TRUE,  opens |-> TRUE,  converts |-> TRUE],
    [parent |-> 0, cFileName |-> <<"B">>,           isDir |-> TRUE,  opens |-> TRUE,  converts |-> TRUE],
    [parent |-> 0, cFileName |-> <<"f", ".", "t">>, isDir |-> FALSE, opens |-> TRUE,  converts |-> TRUE],
    [parent |-> 1, cFileName |-> <<"x">>,           isDir |-> TRUE,  opens |-> TRUE,  converts |-> TRUE],
    [parent |-> 1, cFileName |-> <<"L">>,           isDir |-> TRUE,  opens |-> FALSE, converts |-> TRUE],
    [parent |-> 1, cFileName |-> <<"a", ".", "t">>, isDir |-> FALSE, opens |-> TRUE,  converts |-> TRUE],
    [parent |-> 1, cFileName |-> <<"n">>,           isDir |-> FALSE, opens |-> TRUE,  converts |-> TRUE],
    [parent |-> 4, cFileName |-> <<"e", ".", "t">>, isDir |-> FALSE, opens |-> TRUE,  converts |-> FALSE],
    [parent |-> 4, cFileName |-> <<"c", ".", "T">>, isDir |-> FALSE, opens |-> TRUE,  converts |-> TRUE],
    [parent |-> 5, cFileName |-> <<"d", ".", "t">>, isDir |-> FALSE, opens |-> TRUE,  converts |-> TRUE],
    [parent |-> 2, cFileName |-> <<"b", ".", "t">>, isDir |-> FALSE, opens |-> TRUE,  converts |-> TRUE],
    [parent |-> 2, cFileName |-> <<"y">>,           isDir |-> TRUE,  opens |-> TRUE,  converts |-> TRUE],
    [parent |-> 12, cFileName |-> <<"g", ".", "t">>, isDir |-> FALSE, opens |-> TRUE,  converts |-> TRUE]
>>

Nodes == 1..Len(Tree)
Dirs == {n \in Nodes : Tree[n].isDir}
Files == {n \in Nodes : ~Tree[n].isDir}

ShortRoot == <<"r">>
\* a root whose name is RootLen euro signs (U+20AC, three bytes each in UTF-8)
LongRoot == [i \in 1..RootLen |-> "euro"]

VARIABLES
    ROOT_DIR, PREFIX, OUTPUT_BUFFER_FLUSH_COUNT, file_types, NUM_THREADS,
    buffer_arg,
    q_m, dir_queue, active_dir_count, done, out_m, out_fp, sink, file_count,
    waiting,
    cpc, seed_i, join_i, exit_code,
    wpc, current_dir, entry_i, local_out_buf,
    enqueued, opened, decrements,
    f_dir, f_name, f_match

config == <<ROOT_DIR, PREFIX, OUTPUT_BUFFER_FLUSH_COUNT, file_types, NUM_THREADS, buffer_arg>>
shared == <<q_m, dir_queue, active_dir_count, done, out_m, out_fp, sink, file_count, waiting>>
coord == <<cpc, seed_i, join_i, exit_code>>
workers == <<wpc, current_dir, entry_i, local_out_buf>>
ghost == <<enqueued, opened, decrements>>
filter == <<f_dir, f_name, f_match>>
vars == <<config, shared, coord, workers, ghost, filter>>

Workers == 1..MaxThreads
Main == 0
NoThread == -1

\* the path of entry n below the root: for every level, L"\\" + fdata.cFileName
RECURSIVE RelPath(_)
RelPath(n) ==
    IF n = 0 THEN <<>>
    ELSE RelPath(Tree[n].parent) \o <<"\\">> \o Tree[n].cFileName

RelPaths == [n \in Nodes |-> RelPath(n)]

\* dir + L"\\" + fdata.cFileName, from ROOT_DIR down
FullPath(n) == IF n = 0 THEN ROOT_DIR ELSE ROOT_DIR \o RelPaths[n]

\* What FindFirstFile/FindNextFile return for directory d: the self references
\* "." and "..", then the children. node is 0 for a self reference.
DotEntries == <<
    [node |-> 0, cFileName |-> <<".">>,      isDir |-> TRUE],
    [node |-> 0, cFileName |-> <<".", ".">>, isDir |-> TRUE] >>

ListingOf(d) ==
    LET ids == SelectSeq([i \in Nodes |-> i], LAMBDA n : Tree[n].parent = d)
    IN  DotEntries \o
        [k \in 1..Len(ids) |->
            [node |-> ids[k], cFileName |-> Tree[ids[k]].cFileName, isDir |-> Tree[ids[k]].isDir]]

Listings == [d \in {0} \cup Dirs |-> ListingOf(d)]

Listing(d) == Listings[d]

\* fdata.cFileName[i] (0-based), 0 past the end of the name
CharAt(name, i) == IF i < Len(name) THEN name[i + 1] ELSE "NUL"

\* the test that skips "." and ".."
IsDotOrDotDot(name) ==
    /\ CharAt(name, 0) = "."
    /\ (CharAt(name, 1) = "NUL" \/ (CharAt(name, 1) = "." /\ CharAt(name, 2) = "NUL"))

\* ---------------------------------------------------------------- filters
\* initialize_directory_queue: the top-level folder's name starts with PREFIX
SeedFilter(name) ==
    PREFIX = <<>> \/ wcsnicmp_eq(name, PREFIX, Len(PREFIX))

\* process_directory: a subdirectory is skipped when PREFIX is set and is not
\* found in its full path
SubdirFilter(subdir) ==
    ~(PREFIX # <<>> /\ wstring_find(subdir, PREFIX) = npos)

\* process_directory: file_ext is what follows the last '.' of the full path
file_ext(full_path) == substr(full_path, find_last_of_dot(full_path) + 1)

\* the test for an empty list is missing
ExtensionFilter_NoEmptyList(full_path) ==
    \E k \in 1..Len(file_types) : wcsicmp_eq(file_ext(full_path), file_types[k])

ExtensionFilter(full_path) ==
    \/ file_types = <<>>
    \/ \E k \in 1..Len(file_types) : wcsicmp_eq(file_ext(full_path), file_types[k])

\* bytes of one UTF-16 unit in UTF-8: 1 for ASCII, 3 for the euro sign
Utf8Width(c) == IF c = "euro" THEN 3 ELSE 1

\* the sum of the widths of the units of s
Utf8Bytes(s) ==
    Len(s) + (Utf8Width("euro") - 1) * Cardinality({i \in 1..Len(s) : s[i] = "euro"})

\* WideCharToMultiByte(CP_UTF8, ...): the byte length, 0 on failure
utf8_len(n) == IF Tree[n].converts THEN Utf8Bytes(FullPath(n)) ELSE 0

\* local_out_buf.size(): every line is the path and a newline
RECURSIVE BufSize(_)
BufSize(buf) ==
    IF buf = <<>> THEN 0 ELSE utf8_len(Head(buf)) + 1 + BufSize(Tail(buf))

FlushThreshold == OUTPUT_BUFFER_FLUSH_COUNT * BytesPerLine

BomLine == [kind |-> "bom", node |-> 0]
HeaderLine == [kind |-> "header", node |-> 0]
PathLine(n) == [kind |-> "path", node |-> n]

\* ------------------------------------------------------------------- init
Prefixes == {<<>>, <<"A">>, <<"a">>, <<"x">>}
FileTypeLists == {<<>>, << <<"t">> >>}
\* parse_arguments: OUTPUT_BUFFER_FLUSH_COUNT from the value of --buffer=, or
\* the default when the option is absent
ParseBuffer(arg) ==
    IF arg = NoBufferArg THEN DefaultFlushCount ELSE (arg * KbScale) \div BytesPerLine

\* root and --buffer: 0 flushes after every file, the default never before
\* the end, 1 (768 bytes) with long paths after every second file, and the
\* Readme's example value
FlushSetups ==
    {<<ShortRoot, 0>>, <<ShortRoot, NoBufferArg>>, <<LongRoot, 1>>, <<ShortRoot, ReadmeBufferArg>>}

\* the runs explored: with a prefix, every combination of extension list and
\* flush setup; without one (every directory traversed), the two extremes
Setups ==
    ((Prefixes \ {<<>>}) \X FileTypeLists \X FlushSetups)
    \cup {<< <<>>, <<>>, <<ShortRoot, 0>> >>,
          << <<>>, << <<"t">> >>, <<LongRoot, 1>> >>}

InitState ==
    /\ q_m = NoThread
    /\ dir_queue = <<>>
    /\ active_dir_count = 0
    /\ done = FALSE
    /\ out_m = NoThread
    /\ out_fp = "null"
    /\ sink = <<>>
    /\ file_count = 0
    /\ waiting = {}
    /\ cpc = "parse"
    /\ seed_i = 0
    /\ join_i = 0
    /\ exit_code = "none"
    /\ wpc = [w \in Workers |-> "unborn"]
    /\ current_dir = [w \in Workers |-> 0]
    /\ entry_i = [w \in Workers |-> 0]
    /\ local_out_buf = [w \in Workers |-> <<>>]
    /\ enqueued = {}
    /\ opened = {}
    /\ decrements = [d \in Dirs |-> 0]

NoFilterInput ==
    /\ f_dir = <<>>
    /\ f_name = <<>>
    /\ f_match = "none"

Init ==
    /\ NoFilterInput
    /\ \E su \in Setups :
          /\ PREFIX = su[1]
          /\ file_types = su[2]
          /\ ROOT_DIR = su[3][1]
          /\ buffer_arg = su[3][2]
    /\ OUTPUT_BUFFER_FLUSH_COUNT = DefaultFlushCount
    /\ NUM_THREADS \in 1..MaxThreads
    /\ InitState

\* ------------------------------------------------------------ coordinator
\* parse_arguments: --buffer=, when given, replaces the default of
\* OUTPUT_BUFFER_FLUSH_COUNT
ParseArguments ==
    /\ cpc = "parse"
    /\ OUTPUT_BUFFER_FLUSH_COUNT' = ParseBuffer(buffer_arg)
    /\ cpc' = "fopen"
    /\ UNCHANGED <<filter, ROOT_DIR, PREFIX, file_types, NUM_THREADS, buffer_arg, shared,
                   seed_i, join_i, exit_code, workers, ghost>>

\* the failure of fopen is reported and main goes on
OpenOutput_NoReturnOnFailure ==
    /\ cpc = "fopen"
    /\ \E ok \in BOOLEAN :
          IF ok
          THEN /\ out_fp' = "open"
               /\ sink' = <<BomLine, HeaderLine>>
          ELSE UNCHANGED <<out_fp, sink>>
    /\ cpc' = "seed_open"
    /\ UNCHANGED <<filter, config, q_m, dir_queue, active_dir_count, done, out_m, file_count,
                   waiting, seed_i, join_i, exit_code, workers, ghost>>

\* main: fopen, then the BOM and the header
OpenOutput ==
    /\ cpc = "fopen"
    /\ \E ok \in BOOLEAN :
          IF ok
          THEN /\ out_fp' = "open"
               /\ sink' = <<BomLine, HeaderLine>>
               /\ cpc' = "seed_open"
               /\ UNCHANGED exit_code
          ELSE /\ cpc' = "exit"
               /\ exit_code' = "failure"
               /\ UNCHANGED <<out_fp, sink>>
    /\ UNCHANGED <<filter, config, q_m, dir_queue, active_dir_count, done, out_m, file_count,
                   waiting, seed_i, join_i, workers, ghost>>

\* initialize_directory_queue: FindFirstFileW on the root
SeedOpen ==
    /\ cpc = "seed_open"
    /\ \E ok \in BOOLEAN :
          IF ok THEN cpc' = "seed" /\ seed_i' = 1
                ELSE cpc' = "no_dirs" /\ UNCHANGED seed_i
    /\ UNCHANGED <<filter, config, shared, join_i, exit_code, workers, ghost>>

\* initialize_directory_queue: one pass of the do-while loop, and after the
\* last entry the return of active_dir_count > 0
SeedEntry ==
    /\ cpc = "seed"
    /\ LET e == Listing(0)[seed_i]
           push == e.isDir /\ ~IsDotOrDotDot(e.cFileName) /\ SeedFilter(e.cFileName)
           count == IF push THEN active_dir_count + 1 ELSE active_dir_count
       IN  /\ q_m = NoThread
           /\ dir_queue' = IF push THEN Append(dir_queue, e.node) ELSE dir_queue
           /\ active_dir_count' = count
           /\ enqueued' = IF push THEN enqueued \cup {e.node} ELSE enqueued
           /\ IF seed_i < Len(Listing(0))
              THEN seed_i' = seed_i + 1 /\ UNCHANGED cpc
              ELSE /\ UNCHANGED seed_i
                   /\ cpc' = IF count > 0 THEN "launch" ELSE "no_dirs"
    /\ UNCHANGED <<filter, config, q_m, done, out_m, out_fp, sink, file_count, waiting,
                   join_i, exit_code, workers, opened, decrements>>

\* the result of initialize_directory_queue is ignored
NoDirectories_LaunchesAnyway ==
    /\ cpc = "no_dirs"
    /\ cpc' = "launch"
    /\ UNCHANGED <<filter, config, shared, seed_i, join_i, exit_code, workers, ghost>>

\* main: nothing was seeded: fclose and return 0
NoDirectories ==
    /\ cpc = "no_dirs"
    /\ out_fp' = "closed"
    /\ cpc' = "exit"
    /\ exit_code' = "success"
    /\ UNCHANGED <<filter, config, q_m, dir_queue, active_dir_count, done, out_m, sink,
                   file_count, waiting, seed_i, join_i, workers, ghost>>

\* main: threads.emplace_back, one worker per pass; the worker starts at once
LaunchWorker ==
    /\ cpc = "launch"
    /\ LET w == Cardinality({v \in Workers : wpc[v] # "unborn"}) + 1
       IN  /\ wpc' = [wpc EXCEPT ![w] = "wait"]
           /\ cpc' = IF w = NUM_THREADS THEN "poll" ELSE "launch"
    /\ UNCHANGED <<filter, config, shared, seed_i, join_i, exit_code, current_dir, entry_i,
                   local_out_buf, ghost>>

\* the loop is left as soon as the queue is empty, the counter not read
Poll_QueueOnly ==
    /\ cpc = "poll"
    /\ q_m = NoThread
    /\ IF dir_queue = <<>>
       THEN cpc' = "store_done" /\ UNCHANGED waiting
       ELSE cpc' = "wait_for" /\ waiting' = waiting \cup {Main}
    /\ UNCHANGED <<filter, config, q_m, dir_queue, active_dir_count, done, out_m, out_fp, sink,
                   file_count, seed_i, join_i, exit_code, workers, ghost>>

\* main: one pass of the polling loop: lock, test, and either break or wait_for
Poll ==
    /\ cpc = "poll"
    /\ q_m = NoThread
    /\ IF active_dir_count = 0 /\ dir_queue = <<>>
       THEN cpc' = "store_done" /\ UNCHANGED waiting
       ELSE cpc' = "wait_for" /\ waiting' = waiting \cup {Main}
    /\ UNCHANGED <<filter, config, q_m, dir_queue, active_dir_count, done, out_m, out_fp, sink,
                   file_count, seed_i, join_i, exit_code, workers, ghost>>

\* main: wait_for returns after 50 ms without a notification
PollTimeout ==
    /\ cpc = "wait_for"
    /\ cpc' = "poll"
    /\ waiting' = waiting \ {Main}
    /\ UNCHANGED <<filter, config, q_m, dir_queue, active_dir_count, done, out_m, out_fp, sink,
                   file_count, seed_i, join_i, exit_code, workers, ghost>>

\* main: done.store(true), the queue lock not held
StoreDone ==
    /\ cpc = "store_done"
    /\ done' = TRUE
    /\ cpc' = "notify_all"
    /\ UNCHANGED <<filter, config, q_m, dir_queue, active_dir_count, out_m, out_fp, sink,
                   file_count, waiting, seed_i, join_i, exit_code, workers, ghost>>

\* main: q_cv.notify_all wakes every thread blocked in q_cv.wait
NotifyAll ==
    /\ cpc = "notify_all"
    /\ wpc' = [w \in Workers |-> IF w \in waiting THEN "wait" ELSE wpc[w]]
    /\ waiting' = {}
    /\ cpc' = "join"
    /\ join_i' = 1
    /\ UNCHANGED <<filter, config, q_m, dir_queue, active_dir_count, done, out_m, out_fp, sink,
                   file_count, seed_i, exit_code, current_dir, entry_i, local_out_buf, ghost>>

\* the coordinator goes on without waiting for the worker to return
JoinWorker_Detached ==
    /\ cpc = "join"
    /\ join_i' = join_i + 1
    /\ cpc' = IF join_i = NUM_THREADS THEN "fclose" ELSE "join"
    /\ UNCHANGED <<filter, config, shared, seed_i, exit_code, workers, ghost>>

\* main: t.join() returns once that worker has left its function
JoinWorker ==
    /\ cpc = "join"
    /\ wpc[join_i] = "exited"
    /\ join_i' = join_i + 1
    /\ cpc' = IF join_i = NUM_THREADS THEN "fclose" ELSE "join"
    /\ UNCHANGED <<filter, config, shared, seed_i, exit_code, workers, ghost>>

\* main: fclose and the report
CloseOutput ==
    /\ cpc = "fclose"
    /\ out_fp' = "closed"
    /\ cpc' = "Done"
    /\ exit_code' = "success"
    /\ UNCHANGED <<filter, config, q_m, dir_queue, active_dir_count, done, out_m, sink,
                   file_count, waiting, seed_i, join_i, workers, ghost>>

\* ---------------------------------------------------------------- workers
\* FindNextFileW: on to the next entry, or out of the loop to the decrement
Advance(w) ==
    IF entry_i[w] < Len(Listing(current_dir[w]))
    THEN /\ entry_i' = [entry_i EXCEPT ![w] = entry_i[w] + 1]
         /\ wpc' = [wpc EXCEPT ![w] = "entry"]
    ELSE /\ UNCHANGED entry_i
         /\ wpc' = [wpc EXCEPT ![w] = "decrement"]

\* the wait predicate looks at done alone
WaitPredicate_DoneOnly(w) ==
    /\ wpc[w] = "wait"
    /\ q_m = NoThread
    /\ q_m' = w
    /\ wpc' = [wpc EXCEPT ![w] = IF done THEN "locked" ELSE "pred_false"]
    /\ UNCHANGED <<filter, config, dir_queue, active_dir_count, done, out_m, out_fp, sink, file_count,
                   waiting, coord, current_dir, entry_i, local_out_buf, ghost>>

\* directory_processing_worker: lock q_m and evaluate the wait predicate
\* (on entry to q_cv.wait, and again after every wakeup)
WaitPredicate(w) ==
    /\ wpc[w] = "wait"
    /\ q_m = NoThread
    /\ q_m' = w
    /\ wpc' = [wpc EXCEPT ![w] = IF dir_queue # <<>> \/ done THEN "locked" ELSE "pred_false"]
    /\ UNCHANGED <<filter, config, dir_queue, active_dir_count, done, out_m, out_fp, sink, file_count,
                   waiting, coord, current_dir, entry_i, local_out_buf, ghost>>

\* q_cv.wait: the predicate was false: release q_m and block
Block(w) ==
    /\ wpc[w] = "pred_false"
    /\ q_m' = NoThread
    /\ waiting' = waiting \cup {w}
    /\ wpc' = [wpc EXCEPT ![w] = "blocked"]
    /\ UNCHANGED <<filter, config, dir_queue, active_dir_count, done, out_m, out_fp, sink, file_count,
                   coord, current_dir, entry_i, local_out_buf, ghost>>

\* q_cv.wait may return without a notification
SpuriousWakeup(w) ==
    /\ wpc[w] = "blocked"
    /\ waiting' = waiting \ {w}
    /\ wpc' = [wpc EXCEPT ![w] = "wait"]
    /\ UNCHANGED <<filter, config, q_m, dir_queue, active_dir_count, done, out_m, out_fp, sink,
                   file_count, coord, current_dir, entry_i, local_out_buf, ghost>>

\* the loop is left with q_m still locked
Dequeue_KeepsLockOnExit(w) ==
    /\ wpc[w] = "locked"
    /\ IF done /\ dir_queue = <<>>
       THEN /\ wpc' = [wpc EXCEPT ![w] = "final_flush"]
            /\ UNCHANGED <<q_m, dir_queue, current_dir>>
       ELSE IF dir_queue # <<>>
       THEN /\ q_m' = NoThread
            /\ current_dir' = [current_dir EXCEPT ![w] = Head(dir_queue)]
            /\ dir_queue' = Tail(dir_queue)
            /\ wpc' = [wpc EXCEPT ![w] = "open"]
       ELSE /\ q_m' = NoThread
            /\ wpc' = [wpc EXCEPT ![w] = "wait"]
            /\ UNCHANGED <<dir_queue, current_dir>>
    /\ UNCHANGED <<filter, config, active_dir_count, done, out_m, out_fp, sink, file_count,
                   waiting, coord, entry_i, local_out_buf, ghost>>

\* the front of the queue is copied and left in the queue
Dequeue_FrontNotPopped(w) ==
    /\ wpc[w] = "locked"
    /\ q_m' = NoThread
    /\ IF done /\ dir_queue = <<>>
       THEN /\ wpc' = [wpc EXCEPT ![w] = "final_flush"]
            /\ UNCHANGED <<dir_queue, current_dir>>
       ELSE IF dir_queue # <<>>
       THEN /\ current_dir' = [current_dir EXCEPT ![w] = Head(dir_queue)]
            /\ UNCHANGED dir_queue
            /\ wpc' = [wpc EXCEPT ![w] = "open"]
       ELSE /\ wpc' = [wpc EXCEPT ![w] = "wait"]
            /\ UNCHANGED <<dir_queue, current_dir>>
    /\ UNCHANGED <<filter, config, active_dir_count, done, out_m, out_fp, sink, file_count,
                   waiting, coord, entry_i, local_out_buf, ghost>>

\* directory_processing_worker: past the wait, q_m held: leave the loop, or
\* pop the front of the queue, or go round with an empty current_dir
Dequeue(w) ==
    /\ wpc[w] = "locked"
    /\ q_m' = NoThread
    /\ IF done /\ dir_queue = <<>>
       THEN /\ wpc' = [wpc EXCEPT ![w] = "final_flush"]
            /\ UNCHANGED <<dir_queue, current_dir>>
       ELSE IF dir_queue # <<>>
       THEN /\ current_dir' = [current_dir EXCEPT ![w] = Head(dir_queue)]
            /\ dir_queue' = Tail(dir_queue)
            /\ wpc' = [wpc EXCEPT ![w] = "open"]
       ELSE /\ wpc' = [wpc EXCEPT ![w] = "wait"]
            /\ UNCHANGED <<dir_queue, current_dir>>
    /\ UNCHANGED <<filter, config, active_dir_count, done, out_m, out_fp, sink, file_count,
                   waiting, coord, entry_i, local_out_buf, ghost>>

\* on failure the function returns without the decrement
OpenDirectory_NoDecrementOnFailure(w) ==
    /\ wpc[w] = "open"
    /\ IF Tree[current_dir[w]].opens
       THEN /\ entry_i' = [entry_i EXCEPT ![w] = 1]
            /\ wpc' = [wpc EXCEPT ![w] = "entry"]
            /\ opened' = opened \cup {current_dir[w]}
       ELSE /\ wpc' = [wpc EXCEPT ![w] = "wait"]
            /\ UNCHANGED <<entry_i, opened>>
    /\ UNCHANGED <<filter, config, shared, coord, current_dir, local_out_buf, enqueued,
                   decrements>>

\* the counter is decremented as soon as the directory is opened
OpenDirectory_DecrementOnOpen(w) ==
    /\ wpc[w] = "open"
    /\ active_dir_count' = active_dir_count - 1
    /\ IF Tree[current_dir[w]].opens
       THEN /\ entry_i' = [entry_i EXCEPT ![w] = 1]
            /\ wpc' = [wpc EXCEPT ![w] = "entry"]
            /\ opened' = opened \cup {current_dir[w]}
            /\ UNCHANGED decrements
       ELSE /\ decrements' = [decrements EXCEPT ![current_dir[w]] = @ + 1]
            /\ wpc' = [wpc EXCEPT ![w] = "wait"]
            /\ UNCHANGED <<entry_i, opened>>
    /\ UNCHANGED <<filter, config, q_m, dir_queue, done, out_m, out_fp, sink, file_count,
                   waiting, coord, current_dir, local_out_buf, enqueued>>

\* process_directory: FindFirstFileExW; on failure decrement and return
OpenDirectory(w) ==
    /\ wpc[w] = "open"
    /\ IF Tree[current_dir[w]].opens
       THEN /\ entry_i' = [entry_i EXCEPT ![w] = 1]
            /\ wpc' = [wpc EXCEPT ![w] = "entry"]
            /\ opened' = opened \cup {current_dir[w]}
            /\ UNCHANGED <<active_dir_count, decrements>>
       ELSE /\ active_dir_count' = active_dir_count - 1
            /\ decrements' = [decrements EXCEPT ![current_dir[w]] = @ + 1]
            /\ wpc' = [wpc EXCEPT ![w] = "wait"]
            /\ UNCHANGED <<entry_i, opened>>
    /\ UNCHANGED <<filter, config, q_m, dir_queue, done, out_m, out_fp, sink, file_count,
                   waiting, coord, current_dir, local_out_buf, enqueued>>

\* the prefix test is missing: every real subdirectory is pushed
DirectoryEntry_NoPrefixTest(w) ==
    /\ wpc[w] = "entry"
    /\ LET e == Listing(current_dir[w])[entry_i[w]]
       IN  /\ e.isDir
           /\ IF IsDotOrDotDot(e.cFileName)
              THEN /\ Advance(w)
                   /\ UNCHANGED <<dir_queue, active_dir_count, enqueued>>
              ELSE /\ q_m = NoThread
                   /\ dir_queue' = Append(dir_queue, e.node)
                   /\ active_dir_count' = active_dir_count + 1
                   /\ enqueued' = enqueued \cup {e.node}
                   /\ wpc' = [wpc EXCEPT ![w] = "notify"]
                   /\ UNCHANGED entry_i
    /\ UNCHANGED <<filter, config, q_m, done, out_m, out_fp, sink, file_count, waiting, coord,
                   current_dir, local_out_buf, opened, decrements>>

\* the subdirectory is pushed and the counter is not incremented
DirectoryEntry_NoIncrement(w) ==
    /\ wpc[w] = "entry"
    /\ LET e == Listing(current_dir[w])[entry_i[w]]
       IN  /\ e.isDir
           /\ IF IsDotOrDotDot(e.cFileName) \/ ~SubdirFilter(FullPath(e.node))
              THEN /\ Advance(w)
                   /\ UNCHANGED <<dir_queue, enqueued>>
              ELSE /\ q_m = NoThread
                   /\ dir_queue' = Append(dir_queue, e.node)
                   /\ enqueued' = enqueued \cup {e.node}
                   /\ wpc' = [wpc EXCEPT ![w] = "notify"]
                   /\ UNCHANGED entry_i
    /\ UNCHANGED <<filter, config, q_m, active_dir_count, done, out_m, out_fp, sink, file_count,
                   waiting, coord, current_dir, local_out_buf, opened, decrements>>

\* process_directory: one entry that is a directory: skipped, or pushed with
\* the counter incremented under q_m
DirectoryEntry(w) ==
    /\ wpc[w] = "entry"
    /\ LET e == Listing(current_dir[w])[entry_i[w]]
       IN  /\ e.isDir
           /\ IF IsDotOrDotDot(e.cFileName) \/ ~SubdirFilter(FullPath(e.node))
              THEN /\ Advance(w)
                   /\ UNCHANGED <<dir_queue, active_dir_count, enqueued>>
              ELSE /\ q_m = NoThread
                   /\ dir_queue' = Append(dir_queue, e.node)
                   /\ active_dir_count' = active_dir_count + 1
                   /\ enqueued' = enqueued \cup {e.node}
                   /\ wpc' = [wpc EXCEPT ![w] = "notify"]
                   /\ UNCHANGED entry_i
    /\ UNCHANGED <<filter, config, q_m, done, out_m, out_fp, sink, file_count, waiting, coord,
                   current_dir, local_out_buf, opened, decrements>>

\* process_directory: q_cv.notify_one after the push: wakes one blocked
\* thread (a worker or the polling coordinator), or nobody
NotifyOne(w) ==
    /\ wpc[w] = "notify"
    /\ IF waiting = {}
       THEN /\ Advance(w)
            /\ UNCHANGED <<waiting, cpc>>
       ELSE \E t \in waiting :
              /\ waiting' = waiting \ {t}
              /\ IF entry_i[w] < Len(Listing(current_dir[w]))
                 THEN /\ entry_i' = [entry_i EXCEPT ![w] = entry_i[w] + 1]
                      /\ wpc' = [wpc EXCEPT ![w] = "entry",
                                            ![IF t = Main THEN w ELSE t] =
                                                IF t = Main THEN "entry" ELSE "wait"]
                 ELSE /\ UNCHANGED entry_i
                      /\ wpc' = [wpc EXCEPT ![w] = "decrement",
                                            ![IF t = Main THEN w ELSE t] =
                                                IF t = Main THEN "decrement" ELSE "wait"]
              /\ cpc' = IF t = Main THEN "poll" ELSE cpc
    /\ UNCHANGED <<filter, config, q_m, dir_queue, active_dir_count, done, out_m, out_fp, sink,
                   file_count, seed_i, join_i, exit_code, current_dir, local_out_buf, ghost>>

\* the result of the conversion is not tested
FileEntry_NoLengthTest(w) ==
    /\ wpc[w] = "entry"
    /\ LET e == Listing(current_dir[w])[entry_i[w]]
       IN  /\ ~e.isDir
           /\ IF ExtensionFilter(FullPath(e.node))
              THEN /\ local_out_buf' = [local_out_buf EXCEPT ![w] = Append(@, e.node)]
                   /\ wpc' = [wpc EXCEPT ![w] = "fetch_add"]
                   /\ UNCHANGED entry_i
              ELSE /\ Advance(w)
                   /\ UNCHANGED local_out_buf
    /\ UNCHANGED <<filter, config, shared, coord, current_dir, ghost>>

\* a file whose conversion fails is counted all the same
FileEntry_CountsUnconverted(w) ==
    /\ wpc[w] = "entry"
    /\ LET e == Listing(current_dir[w])[entry_i[w]]
       IN  /\ ~e.isDir
           /\ IF ExtensionFilter(FullPath(e.node))
              THEN /\ local_out_buf' = [local_out_buf EXCEPT ![w] =
                                           IF utf8_len(e.node) > 0 THEN Append(@, e.node) ELSE @]
                   /\ wpc' = [wpc EXCEPT ![w] = "fetch_add"]
                   /\ UNCHANGED entry_i
              ELSE /\ Advance(w)
                   /\ UNCHANGED local_out_buf
    /\ UNCHANGED <<filter, config, shared, coord, current_dir, ghost>>

\* process_directory: one entry that is a file: extension filter, conversion,
\* and the line appended to the worker's buffer
FileEntry(w) ==
    /\ wpc[w] = "entry"
    /\ LET e == Listing(current_dir[w])[entry_i[w]]
       IN  /\ ~e.isDir
           /\ IF ExtensionFilter(FullPath(e.node)) /\ utf8_len(e.node) > 0
              THEN /\ local_out_buf' = [local_out_buf EXCEPT ![w] = Append(@, e.node)]
                   /\ wpc' = [wpc EXCEPT ![w] = "fetch_add"]
                   /\ UNCHANGED entry_i
              ELSE /\ Advance(w)
                   /\ UNCHANGED local_out_buf
    /\ UNCHANGED <<filter, config, shared, coord, current_dir, ghost>>

\* the size test is missing: the buffer is only flushed at the end
CountFile_NoSizeTest(w) ==
    /\ wpc[w] = "fetch_add"
    /\ file_count' = file_count + 1
    /\ Advance(w)
    /\ UNCHANGED <<filter, config, q_m, dir_queue, active_dir_count, done, out_m, out_fp, sink,
                   waiting, coord, current_dir, local_out_buf, ghost>>

\* process_directory: file_count.fetch_add(1), then the size test
CountFile(w) ==
    /\ wpc[w] = "fetch_add"
    /\ file_count' = file_count + 1
    /\ IF BufSize(local_out_buf[w]) >= FlushThreshold
       THEN wpc' = [wpc EXCEPT ![w] = "flush"] /\ UNCHANGED entry_i
       ELSE Advance(w)
    /\ UNCHANGED <<filter, config, q_m, dir_queue, active_dir_count, done, out_m, out_fp, sink,
                   waiting, coord, current_dir, local_out_buf, ghost>>

\* the write is made without taking out_m
FlushLock_NoLock(w) ==
    /\ wpc[w] \in {"flush", "final_lock"}
    /\ wpc' = [wpc EXCEPT ![w] = IF wpc[w] = "flush" THEN "write" ELSE "final_write"]
    /\ UNCHANGED <<filter, config, shared, coord, current_dir, entry_i, local_out_buf, ghost>>

\* flush_buffer: lock out_m
FlushLock(w) ==
    /\ wpc[w] \in {"flush", "final_lock"}
    /\ out_m = NoThread
    /\ out_m' = w
    /\ wpc' = [wpc EXCEPT ![w] = IF wpc[w] = "flush" THEN "write" ELSE "final_write"]
    /\ UNCHANGED <<filter, config, q_m, dir_queue, active_dir_count, done, out_fp, sink, file_count,
                   waiting, coord, current_dir, entry_i, local_out_buf, ghost>>

\* the buffer is written and not cleared
FlushWrite_NotCleared(w) ==
    /\ wpc[w] \in {"write", "final_write"}
    /\ sink' = sink \o [k \in 1..Len(local_out_buf[w]) |-> PathLine(local_out_buf[w][k])]
    /\ out_m' = NoThread
    /\ IF wpc[w] = "write"
       THEN Advance(w)
       ELSE wpc' = [wpc EXCEPT ![w] = "exited"] /\ UNCHANGED entry_i
    /\ UNCHANGED <<filter, config, q_m, dir_queue, active_dir_count, done, out_fp, file_count,
                   waiting, coord, current_dir, local_out_buf, ghost>>

\* flush_buffer: fwrite the buffer, clear it, unlock out_m
FlushWrite(w) ==
    /\ wpc[w] \in {"write", "final_write"}
    /\ sink' = sink \o [k \in 1..Len(local_out_buf[w]) |-> PathLine(local_out_buf[w][k])]
    /\ local_out_buf' = [local_out_buf EXCEPT ![w] = <<>>]
    /\ out_m' = NoThread
    /\ IF wpc[w] = "write"
       THEN Advance(w)
       ELSE wpc' = [wpc EXCEPT ![w] = "exited"] /\ UNCHANGED entry_i
    /\ UNCHANGED <<filter, config, q_m, dir_queue, active_dir_count, done, out_fp, file_count,
                   waiting, coord, current_dir, ghost>>

\* the directory is left without the decrement
Decrement_Skipped(w) ==
    /\ wpc[w] = "decrement"
    /\ wpc' = [wpc EXCEPT ![w] = "wait"]
    /\ UNCHANGED <<filter, config, shared, coord, current_dir, entry_i, local_out_buf, ghost>>

\* process_directory: FindClose and active_dir_count--
Decrement(w) ==
    /\ wpc[w] = "decrement"
    /\ active_dir_count' = active_dir_count - 1
    /\ decrements' = [decrements EXCEPT ![current_dir[w]] = @ + 1]
    /\ wpc' = [wpc EXCEPT ![w] = "wait"]
    /\ UNCHANGED <<filter, config, q_m, dir_queue, done, out_m, out_fp, sink, file_count,
                   waiting, coord, current_dir, entry_i, local_out_buf, enqueued, opened>>

\* the worker returns without its last flush
FinalFlush_Dropped(w) ==
    /\ wpc[w] = "final_flush"
    /\ wpc' = [wpc EXCEPT ![w] = "exited"]
    /\ UNCHANGED <<filter, config, shared, coord, current_dir, entry_i, local_out_buf, ghost>>

\* the last flush is made only when the buffer has reached the threshold
FinalFlush_OnlyWhenFull(w) ==
    /\ wpc[w] = "final_flush"
    /\ wpc' = [wpc EXCEPT ![w] =
                  IF local_out_buf[w] # <<>> /\ BufSize(local_out_buf[w]) >= FlushThreshold
                  THEN "final_lock" ELSE "exited"]
    /\ UNCHANGED <<filter, config, shared, coord, current_dir, entry_i, local_out_buf, ghost>>

\* directory_processing_worker: out of the loop: flush what is left, return
FinalFlush(w) ==
    /\ wpc[w] = "final_flush"
    /\ wpc' = [wpc EXCEPT ![w] = IF local_out_buf[w] # <<>> THEN "final_lock" ELSE "exited"]
    /\ UNCHANGED <<filter, config, shared, coord, current_dir, entry_i, local_out_buf, ghost>>

Coordinator ==
    \/ ParseArguments \/ OpenOutput \/ SeedOpen \/ SeedEntry \/ NoDirectories \/ LaunchWorker
    \/ Poll \/ PollTimeout \/ StoreDone \/ NotifyAll \/ JoinWorker \/ CloseOutput

WorkerStep(w) ==
    \/ WaitPredicate(w) \/ Block(w) \/ Dequeue(w) \/ OpenDirectory(w)
    \/ DirectoryEntry(w) \/ NotifyOne(w) \/ FileEntry(w) \/ CountFile(w)
    \/ FlushLock(w) \/ FlushWrite(w) \/ Decrement(w) \/ FinalFlush(w)

Next ==
    \/ Coordinator
    \/ \E w \in Workers : WorkerStep(w)
    \/ \E w \in Workers : SpuriousWakeup(w)

Spec == Init /\ [][Next]_vars

\* Every thread that can take a step eventually takes it, a mutex that keeps
\* becoming free is eventually acquired, and the 50 ms timer of wait_for
\* fires; a spurious wakeup is never owed.
Fairness ==
    /\ SF_vars(Coordinator)
    /\ \A w \in Workers : SF_vars(WorkerStep(w))

\* The liveness properties are checked on the runs of one configuration: the
\* prefix that seeds one top-level folder, whose worker then enqueues both of
\* its subdirectories in a burst, with a flush after every file.
FairInit ==
    /\ NoFilterInput
    /\ PREFIX = <<"A">>
    /\ file_types = << <<"t">> >>
    /\ ROOT_DIR = ShortRoot
    /\ buffer_arg = 0
    /\ OUTPUT_BUFFER_FLUSH_COUNT = DefaultFlushCount
    /\ NUM_THREADS \in 1..MaxThreads
    /\ InitState

FairSpec == FairInit /\ [][Next]_vars /\ Fairness

\* ------------------------------------------- the extension filter, alone
SeqsUpTo(S, n) == UNION {[1..k -> S] : k \in 0..n}

NameChars == {"n", "z", "Z", "."}
ExtChars == {"n", "z", "\\"}
FilterNames == SeqsUpTo(NameChars, MaxNameLen) \ {<<>>}
FilterExts == SeqsUpTo(ExtChars, MaxExtLen)
FilterDirs == {
    <<"r">>,
    <<"r", "\\", "d">>,
    <<"r", "\\", "d", ".", "z">>,
    <<"r", ".", "z", "\\", "d">> }
FilterFileTypes ==
    {<<>>} \cup {<<e>> : e \in FilterExts} \cup {<< <<"n">>, e >> : e \in FilterExts}

FilterInit ==
    /\ ROOT_DIR = ShortRoot
    /\ PREFIX = <<>>
    /\ buffer_arg = NoBufferArg
    /\ OUTPUT_BUFFER_FLUSH_COUNT = DefaultFlushCount
    /\ NUM_THREADS = 1
    /\ file_types \in FilterFileTypes
    /\ InitState
    /\ f_dir \in FilterDirs
    /\ f_name \in FilterNames
    /\ f_match = "none"

\* process_directory on one file entry named f_name found in directory f_dir:
\* the full path and the extension filter's verdict on it
ClassifyFile ==
    /\ f_match = "none"
    /\ f_name # <<>>
    /\ f_match' = IF ExtensionFilter(f_dir \o <<"\\">> \o f_name) THEN "match" ELSE "skip"
    /\ UNCHANGED <<config, shared, coord, workers, ghost, f_dir, f_name>>

FilterNext == ClassifyFile

FilterSpec == FilterInit /\ [][FilterNext]_vars

\* ------------------------------------------------ the variant fast_scan4
\* fast_scan4.cpp is the same scanner with globals, no extension filter and
\* no prefix test in the worker. Its directories are named by their paths:
\* ROOT_DIR, then via (empty, or what a self reference of the root has put
\* there), then the path of entry node below the root (nothing for node 0).
Scan4Dir(via, node) == [via |-> via, node |-> node]

Scan4Root == Scan4Dir(<<>>, 0)

Scan4Path(e) == ROOT_DIR \o e.via \o (IF e.node = 0 THEN <<>> ELSE RelPaths[e.node])

\* ROOT_DIR\.. is the directory that holds the root
Scan4IsParent(e) == e.node = 0 /\ e.via = <<"\\", ".", ".">>

\* what FindFirstFile/FindNextFile return for a directory: the listing of the
\* tree, and for the root's parent the self references and the root
Scan4Listing(e) ==
    IF Scan4IsParent(e)
    THEN DotEntries \o << [node |-> 0, cFileName |-> ROOT_DIR, isDir |-> TRUE] >>
    ELSE Listing(e.node)

\* cur_dir + L"\\" + fdata.cFileName
Scan4Child(dir, x) ==
    IF x.node = 0
    THEN Scan4Dir(dir.via \o <<"\\">> \o x.cFileName, 0)
    ELSE Scan4Dir(dir.via, x.node)

\* FindFirstFileExW succeeds on the root, on its parent, and where the tree says
Scan4Opens(e) == e.node = 0 \/ Tree[e.node].opens

\* WideCharToMultiByte(CP_UTF8, ...) on the full path of a file
Scan4Utf8Len(f) == IF Tree[f.node].converts THEN Utf8Bytes(Scan4Path(f)) ELSE 0

\* local_out_buf.size()
RECURSIVE Scan4BufSize(_)
Scan4BufSize(buf) ==
    IF buf = <<>> THEN 0 ELSE Scan4Utf8Len(Head(buf)) + 1 + Scan4BufSize(Tail(buf))

\* the state after the arguments are parsed: a prefix or none, --buffer=0 or
\* no --buffer. Without a prefix the self references make the workers go
\* through the tree three times; those runs are explored with one worker.
Scan4Init ==
    /\ NoFilterInput
    /\ PREFIX \in {<<>>, <<"A">>}
    /\ file_types = <<>>
    /\ ROOT_DIR = ShortRoot
    /\ buffer_arg \in {NoBufferArg, 0}
    /\ OUTPUT_BUFFER_FLUSH_COUNT = ParseBuffer(buffer_arg)
    /\ NUM_THREADS \in (IF PREFIX = <<>> THEN {1} ELSE 1..MaxThreads)
    /\ q_m = NoThread
    /\ dir_queue = <<>>
    /\ active_dir_count = 0
    /\ done = FALSE
    /\ out_m = NoThread
    /\ out_fp = "null"
    /\ sink = <<>>
    /\ file_count = 0
    /\ waiting = {}
    /\ cpc = "fopen"
    /\ seed_i = 0
    /\ join_i = 0
    /\ exit_code = "none"
    /\ wpc = [w \in Workers |-> "unborn"]
    /\ current_dir = [w \in Workers |-> Scan4Root]
    /\ entry_i = [w \in Workers |-> 0]
    /\ local_out_buf = [w \in Workers |-> <<>>]
    /\ enqueued = {}
    /\ opened = {}
    /\ decrements = [d \in Dirs |-> 0]

\* main: fopen, then the header
Scan4OpenOutput ==
    /\ cpc = "fopen"
    /\ \E ok \in BOOLEAN :
          IF ok
          THEN /\ out_fp' = "open"
               /\ sink' = <<HeaderLine>>
               /\ cpc' = "seed_open"
               /\ UNCHANGED exit_code
          ELSE /\ cpc' = "exit"
               /\ exit_code' = "failure"
               /\ UNCHANGED <<out_fp, sink>>
    /\ UNCHANGED <<filter, config, q_m, dir_queue, active_dir_count, done, out_m, file_count,
                   waiting, seed_i, join_i, workers, ghost>>

\* main: one pass of the seeding loop: a directory whose name passes the
\* prefix test is pushed, the self references included; after the last entry
\* the test of active_dir_count == 0
Scan4SeedEntry ==
    /\ cpc = "seed"
    /\ LET e == Listing(0)[seed_i]
           push == e.isDir /\ SeedFilter(e.cFileName)
           subdir == Scan4Child(Scan4Root, e)
           count == IF push THEN active_dir_count + 1 ELSE active_dir_count
       IN  /\ q_m = NoThread
           /\ dir_queue' = IF push THEN Append(dir_queue, subdir) ELSE dir_queue
           /\ active_dir_count' = count
           /\ enqueued' = IF push THEN enqueued \cup {subdir} ELSE enqueued
           /\ IF seed_i < Len(Listing(0))
              THEN seed_i' = seed_i + 1 /\ UNCHANGED cpc
              ELSE /\ UNCHANGED seed_i
                   /\ cpc' = IF count > 0 THEN "launch" ELSE "no_dirs"
    /\ UNCHANGED <<filter, config, q_m, done, out_m, out_fp, sink, file_count, waiting,
                   join_i, exit_code, workers, opened, decrements>>

\* FindNextFileW: on to the next entry, or out of the loop to the decrement
Scan4Advance(w) ==
    IF entry_i[w] < Len(Scan4Listing(current_dir[w]))
    THEN /\ entry_i' = [entry_i EXCEPT ![w] = entry_i[w] + 1]
         /\ wpc' = [wpc EXCEPT ![w] = "entry"]
    ELSE /\ UNCHANGED entry_i
         /\ wpc' = [wpc EXCEPT ![w] = "decrement"]

\* worker_thread: FindFirstFileExW; on failure decrement and continue
Scan4OpenDirectory(w) ==
    /\ wpc[w] = "open"
    /\ IF Scan4Opens(current_dir[w])
       THEN /\ entry_i' = [entry_i EXCEPT ![w] = 1]
            /\ wpc' = [wpc EXCEPT ![w] = "entry"]
            /\ opened' = opened \cup {current_dir[w]}
            /\ UNCHANGED active_dir_count
       ELSE /\ active_dir_count' = active_dir_count - 1
            /\ wpc' = [wpc EXCEPT ![w] = "wait"]
            /\ UNCHANGED <<entry_i, opened>>
    /\ UNCHANGED <<filter, config, q_m, dir_queue, done, out_m, out_fp, sink, file_count,
                   waiting, coord, current_dir, local_out_buf, enqueued, decrements>>

\* worker_thread: one entry that is a directory: a self reference is
\* skipped, any other is pushed with the counter incremented under q_m
Scan4DirectoryEntry(w) ==
    /\ wpc[w] = "entry"
    /\ LET e == Scan4Listing(current_dir[w])[entry_i[w]]
           subdir == Scan4Child(current_dir[w], e)
       IN  /\ e.isDir
           /\ IF IsDotOrDotDot(e.cFileName)
              THEN /\ Scan4Advance(w)
                   /\ UNCHANGED <<dir_queue, active_dir_count, enqueued>>
              ELSE /\ q_m = NoThread
                   /\ dir_queue' = Append(dir_queue, subdir)
                   /\ active_dir_count' = active_dir_count + 1
                   /\ enqueued' = enqueued \cup {subdir}
                   /\ wpc' = [wpc EXCEPT ![w] = "notify"]
                   /\ UNCHANGED entry_i
    /\ UNCHANGED <<filter, config, q_m, done, out_m, out_fp, sink, file_count, waiting, coord,
                   current_dir, local_out_buf, opened, decrements>>

\* worker_thread: q_cv.notify_one after the push: wakes one blocked thread
\* (a worker or the polling coordinator), or nobody
Scan4NotifyOne(w) ==
    /\ wpc[w] = "notify"
    /\ LET next == IF entry_i[w] < Len(Scan4Listing(current_dir[w]))
                   THEN "entry" ELSE "decrement"
       IN  /\ entry_i' = [entry_i EXCEPT ![w] = IF next = "entry" THEN @ + 1 ELSE @]
           /\ IF waiting = {}
              THEN /\ wpc' = [wpc EXCEPT ![w] = next]
                   /\ UNCHANGED <<waiting, cpc>>
              ELSE \E t \in waiting :
                     /\ waiting' = waiting \ {t}
                     /\ IF t = Main
                        THEN /\ cpc' = "poll"
                             /\ wpc' = [wpc EXCEPT ![w] = next]
                        ELSE /\ wpc' = [wpc EXCEPT ![w] = next, ![t] = "wait"]
                             /\ UNCHANGED cpc
    /\ UNCHANGED <<filter, config, q_m, dir_queue, active_dir_count, done, out_m, out_fp, sink,
                   file_count, seed_i, join_i, exit_code, current_dir, local_out_buf, ghost>>

\* worker_thread: one entry that is a file: conversion, and the line appended
\* to the worker's buffer
Scan4FileEntry(w) ==
    /\ wpc[w] = "entry"
    /\ LET e == Scan4Listing(current_dir[w])[entry_i[w]]
           full_path == Scan4Child(current_dir[w], e)
       IN  /\ ~e.isDir
           /\ IF Scan4Utf8Len(full_path) > 0
              THEN /\ local_out_buf' = [local_out_buf EXCEPT ![w] = Append(@, full_path)]
                   /\ wpc' = [wpc EXCEPT ![w] = "fetch_add"]
                   /\ UNCHANGED entry_i
              ELSE /\ Scan4Advance(w)
                   /\ UNCHANGED local_out_buf
    /\ UNCHANGED <<filter, config, shared, coord, current_dir, ghost>>

\* worker_thread: file_count.fetch_add(1), then the size test
Scan4CountFile(w) ==
    /\ wpc[w] = "fetch_add"
    /\ file_count' = file_count + 1
    /\ IF Scan4BufSize(local_out_buf[w]) >= FlushThreshold
       THEN wpc' = [wpc EXCEPT ![w] = "flush"] /\ UNCHANGED entry_i
       ELSE Scan4Advance(w)
    /\ UNCHANGED <<filter, config, q_m, dir_queue, active_dir_count, done, out_m, out_fp, sink,
                   waiting, coord, current_dir, local_out_buf, ghost>>

\* worker_thread: under out_m, fwrite the buffer; inside the loop the buffer
\* is then cleared, after the loop it is not
Scan4FlushWrite(w) ==
    /\ wpc[w] \in {"write", "final_write"}
    /\ sink' = sink \o [k \in 1..Len(local_out_buf[w]) |-> PathLine(local_out_buf[w][k])]
    /\ out_m' = NoThread
    /\ IF wpc[w] = "write"
       THEN /\ local_out_buf' = [local_out_buf EXCEPT ![w] = <<>>]
            /\ Scan4Advance(w)
       ELSE /\ wpc' = [wpc EXCEPT ![w] = "exited"]
            /\ UNCHANGED <<entry_i, local_out_buf>>
    /\ UNCHANGED <<filter, config, q_m, dir_queue, active_dir_count, done, out_fp, file_count,
                   waiting, coord, current_dir, ghost>>

\* worker_thread: FindClose and active_dir_count--
Scan4Decrement(w) ==
    /\ wpc[w] = "decrement"
    /\ active_dir_count' = active_dir_count - 1
    /\ wpc' = [wpc EXCEPT ![w] = "wait"]
    /\ UNCHANGED <<filter, config, q_m, dir_queue, done, out_m, out_fp, sink, file_count,
                   waiting, coord, current_dir, entry_i, local_out_buf, ghost>>

\* main of fast_scan4.cpp; the polling loop, the shutdown, the joins and the
\* close are those of landrys-file-scanner.cpp
Scan4Coordinator ==
    \/ Scan4OpenOutput \/ SeedOpen \/ Scan4SeedEntry \/ NoDirectories \/ LaunchWorker
    \/ Poll \/ PollTimeout \/ StoreDone \/ NotifyAll \/ JoinWorker \/ CloseOutput

\* worker_thread; the wait, the pop and the locking of out_m are those of
\* landrys-file-scanner.cpp
Scan4WorkerStep(w) ==
    \/ WaitPredicate(w) \/ Block(w) \/ Dequeue(w) \/ Scan4OpenDirectory(w)
    \/ Scan4DirectoryEntry(w) \/ Scan4NotifyOne(w) \/ Scan4FileEntry(w) \/ Scan4CountFile(w)
    \/ FlushLock(w) \/ Scan4FlushWrite(w) \/ Scan4Decrement(w) \/ FinalFlush(w)

Scan4Next ==
    \/ Scan4Coordinator
    \/ \E w \in Workers : Scan4WorkerStep(w)
    \/ \E w \in Workers : SpuriousWakeup(w)

Scan4Spec == Scan4Init /\ [][Scan4Next]_vars

\* ================================================================ properties
\* the nodes whose path lines are in the sink, in the order written
SinkNodes ==
    LET paths == SelectSeq(sink, LAMBDA l : l.kind = "path")
    IN  [k \in 1..Len(paths) |-> paths[k].node]

InSink(n) == \E k \in 1..Len(SinkNodes) : SinkNodes[k] = n

InSomeBuffer(n) ==
    \E w \in Workers : \E k \in 1..Len(local_out_buf[w]) : local_out_buf[w][k] = n

\* the directories above entry n, nearest first, the root (0) left out
RECURSIVE Ancestors(_)
Ancestors(n) ==
    IF Tree[n].parent = 0 THEN {} ELSE {Tree[n].parent} \cup Ancestors(Tree[n].parent)

\* s contains p, characters compared without regard to case
ContainsNoCase(s, p) ==
    \E i \in 1..(Len(s) - Len(p) + 1) :
        \A j \in 1..Len(p) : Lower(s[i + j - 1]) = Lower(p[j])

\* a equals b without regard to case
EqualNoCase(a, b) ==
    Len(a) = Len(b) /\ \A i \in 1..Len(a) : Lower(a[i]) = Lower(b[i])

\* the file passes the extension filter and its path converts
Wanted(f) == ExtensionFilter(FullPath(f)) /\ Tree[f].converts

AfterSeeding ==
    cpc \in {"launch", "poll", "wait_for", "store_done", "notify_all", "join", "fclose", "Done"}

\* C1 as stated: once all workers are joined, the sink holds exactly one line
\* for each file that lies in a seeded or enqueued directory, passes the
\* extension filter and converts: none missing, no path twice.
C1_OneLinePerFileOfEnqueuedDirs ==
    cpc = "Done" =>
        /\ \A i, j \in 1..Len(SinkNodes) :
              i # j => FullPath(SinkNodes[i]) # FullPath(SinkNodes[j])
        /\ {SinkNodes[k] : k \in 1..Len(SinkNodes)}
              = {f \in Files : Tree[f].parent \in enqueued /\ Wanted(f)}

\* C1 amended: once all workers are joined, the sink holds exactly one line
\* for each file that lies in a seeded or enqueued directory whose enumeration
\* could be opened, passes the extension filter and converts: none missing, no
\* path twice, for every flush threshold and every pool size of at least 1.
C1_OneLinePerFileOfOpenedDirs ==
    cpc = "Done" =>
        /\ \A i, j \in 1..Len(SinkNodes) :
              i # j => FullPath(SinkNodes[i]) # FullPath(SinkNodes[j])
        /\ {SinkNodes[k] : k \in 1..Len(SinkNodes)}
              = {f \in Files : Tree[f].parent \in opened /\ Wanted(f)}

\* C1 witness: a run of several workers that flush after every file is over,
\* with lines written and the directory that cannot be opened traversed
C1_Witness ==
    /\ cpc = "Done"
    /\ NUM_THREADS > 1
    /\ OUTPUT_BUFFER_FLUSH_COUNT = 0
    /\ Len(SinkNodes) >= 4
    /\ 5 \in enqueued

\* C2 as stated: once the coordinator has stored done and called notify_all,
\* every worker leaves its loop, every join returns and the coordinator
\* reaches Done.
C2_ShutdownCompletes == (cpc = "join") ~> (cpc = "Done")

\* C3: with a directory seeded and a worker launched, under fair scheduling
\* the coordinator's polling loop eventually observes active_dir_count == 0
\* with an empty queue and leaves the loop.
C3_PollingLoopEnds == (cpc = "launch") ~> (cpc = "store_done")

\* C3 witness: the loop was left after one worker enqueued both
\* subdirectories of one directory in a burst
C3_Witness ==
    /\ cpc = "store_done"
    /\ {4, 5} \subseteq enqueued
    /\ active_dir_count = 0

\* C4: in every run that reaches Done the number of path lines in the sink,
\* the header left out, equals the final file_count.
C4_LinesEqualFileCount ==
    cpc = "Done" => Len(SinkNodes) = file_count

\* C4 witness: a run that flushed in the middle (long paths) is over with
\* files counted
C4_Witness ==
    /\ cpc = "Done"
    /\ ROOT_DIR = LongRoot
    /\ file_count >= 3
    /\ Len(sink) = file_count + 2

\* the directory fails the filter applied where it is found
FailsDirFilter(d) ==
    IF Tree[d].parent = 0 THEN ~SeedFilter(Tree[d].cFileName)
    ELSE ~SubdirFilter(FullPath(d))

\* C5: a directory that fails the directory filter, at seeding or in a
\* worker, is never enqueued and never enumerated, and no file in it or in
\* any of its descendants is ever buffered or written.
C5_PrunedNeverVisited ==
    \A d \in Dirs :
        FailsDirFilter(d) =>
            /\ d \notin enqueued
            /\ d \notin opened
            /\ \A w \in Workers : wpc[w] \notin {"unborn", "wait", "pred_false", "blocked", "locked"}
                                    => current_dir[w] # d
            /\ \A f \in Files : d \in Ancestors(f) => ~InSink(f) /\ ~InSomeBuffer(f)

\* C5 witness: a run is over in which a top-level folder was rejected at
\* seeding and a subdirectory holding files was rejected by a worker
C5_Witness ==
    /\ cpc = "Done"
    /\ FailsDirFilter(2)
    /\ FailsDirFilter(4)
    /\ 1 \in opened
    /\ InSink(6)

\* the top-level folder above (or equal to) directory d
RECURSIVE TopLevel(_)
TopLevel(d) == IF Tree[d].parent = 0 THEN d ELSE TopLevel(Tree[d].parent)

\* C6 as stated: with a non-empty prefix, every directory at every depth
\* beneath a top-level folder whose name starts with the prefix is enqueued
\* and enumerated (here: at the end of the run, for the directories that can
\* be reached through directories that open).
C6_NothingPrunedBelowSeeded ==
    (cpc = "Done" /\ PREFIX # <<>>) =>
        \A d \in Dirs :
            (/\ wcsnicmp_eq(Tree[TopLevel(d)].cFileName, PREFIX, Len(PREFIX))
             /\ \A a \in Ancestors(d) : Tree[a].opens)
            => /\ d \in enqueued
               /\ Tree[d].opens => d \in opened

\* the entries of its directory that worker w has dealt with
Handled(w) ==
    IF wpc[w] \in {"notify", "decrement"} THEN entry_i[w]
    ELSE IF wpc[w] \in {"entry", "fetch_add", "flush", "write"} THEN entry_i[w] - 1
    ELSE 0

\* C7 as stated: a worker enqueues a discovered subdirectory if and only if
\* the prefix is empty or the subdirectory's full path contains the prefix
\* compared case-insensitively.
C7_SubdirEnqueuedIffContainsNoCase ==
    \A w \in Workers : \A k \in 1..Handled(w) :
        LET e == Listing(current_dir[w])[k]
        IN  (e.isDir /\ e.node # 0) =>
                (e.node \in enqueued
                    <=> (PREFIX = <<>> \/ ContainsNoCase(FullPath(e.node), PREFIX)))

\* C8 as stated: a regular file directly in the root that passes the
\* extension filter is in the output whatever the prefix.
C8_RootFileInOutput ==
    cpc = "Done" =>
        \A f \in Files : (Tree[f].parent = 0 /\ Wanted(f)) => InSink(f)

\* C9 as stated: with an empty prefix seeding enqueues every child directory
\* of the root and workers enqueue every discovered subdirectory; with an
\* empty extension list every regular file in an enumerated directory is
\* recorded.
C9_EmptyConfigRecordsEveryFile ==
    /\ (PREFIX = <<>> /\ AfterSeeding) =>
          \A d \in Dirs : Tree[d].parent = 0 => d \in enqueued
    /\ (PREFIX = <<>> /\ cpc = "Done") =>
          \A d \in Dirs : Tree[d].parent \in opened => d \in enqueued
    /\ (file_types = <<>> /\ cpc = "Done") =>
          \A f \in Files : Tree[f].parent \in opened => InSink(f)

\* C9 amended: with an empty prefix seeding enqueues every child directory of
\* the root and workers enqueue every discovered subdirectory; with an empty
\* extension list every regular file in an enumerated directory whose path
\* converts to UTF-8 is recorded.
C9_EmptyConfigFiltersNothing ==
    /\ (PREFIX = <<>> /\ AfterSeeding) =>
          \A d \in Dirs : Tree[d].parent = 0 => d \in enqueued
    /\ (PREFIX = <<>> /\ cpc = "Done") =>
          \A d \in Dirs : Tree[d].parent \in opened => d \in enqueued
    /\ (file_types = <<>> /\ cpc = "Done") =>
          \A f \in Files : (Tree[f].parent \in opened /\ Tree[f].converts) => InSink(f)

\* C9 witness: a run with neither prefix nor extension list is over; the
\* file without an extension is written and the deepest directory enumerated
C9_Witness ==
    /\ cpc = "Done"
    /\ PREFIX = <<>>
    /\ file_types = <<>>
    /\ InSink(7)
    /\ 12 \in opened

\* what follows the last '.' of the file's name, for a name that has one
NameExtension(name) ==
    LET dots == {i \in 1..Len(name) : name[i] = "."}
        last == CHOOSE i \in dots : \A k \in dots : i >= k
    IN  SubSeq(name, last + 1, Len(name))

\* C10 as stated: with a non-empty extension list a file passes the filter if
\* and only if its name contains a '.' and what follows the last '.' of the
\* name equals a configured extension case-insensitively; a name without '.'
\* never passes, whatever the directory names in its path.
C10_MatchIffNameExtension ==
    (f_match # "none" /\ file_types # <<>>) =>
        (f_match = "match"
            <=> /\ \E i \in 1..Len(f_name) : f_name[i] = "."
                /\ \E k \in 1..Len(file_types) :
                      EqualNoCase(NameExtension(f_name), file_types[k]))

\* worker w has dequeued a directory and not yet decremented for it
InProgress(w) ==
    wpc[w] \in {"open", "entry", "notify", "fetch_add", "flush", "write", "decrement"}

InQueue(d) == \E k \in 1..Len(dir_queue) : dir_queue[k] = d

\* directory d was dequeued and the worker that took it is through with it
Finished(d) ==
    /\ d \in enqueued
    /\ ~InQueue(d)
    /\ \A w \in Workers : InProgress(w) => current_dir[w] # d

\* C11: a directory is decremented for at most once, and exactly once as soon
\* as its worker is through with it; the decrement is made by the worker that
\* holds the directory, either at the failed open or after the last entry of
\* the listing, and that worker is then back at the top of its loop.
C11_OneDecrementPerDequeuedDirectory ==
    /\ [](\A d \in Dirs :
            /\ decrements[d] <= 1
            /\ decrements[d] = 1 <=> Finished(d))
    /\ [][\A d \in Dirs :
            decrements'[d] # decrements[d] =>
                \E w \in Workers :
                    /\ current_dir[w] = d
                    /\ \/ wpc[w] = "open" /\ ~Tree[d].opens /\ d \notin opened
                       \/ /\ wpc[w] = "decrement"
                          /\ entry_i[w] = Len(Listing(d))
                          /\ d \in opened
                    /\ wpc'[w] = "wait"
                    /\ active_dir_count' = active_dir_count - 1
                    /\ cpc' = cpc /\ exit_code' = exit_code]_vars

\* C11 witness: a single worker failed to open a directory, was decremented
\* for it, then enumerated a directory dequeued after it, and the scan ended
C11_Witness ==
    /\ cpc = "Done"
    /\ NUM_THREADS = 1
    /\ 5 \in enqueued /\ 5 \notin opened /\ decrements[5] = 1
    /\ 12 \in opened /\ decrements[12] = 1

\* the entry of its directory that worker w is looking at
CurrentEntry(w) == Listing(current_dir[w])[entry_i[w]]

\* worker w is at a file that passes the extension filter and whose path
\* WideCharToMultiByte cannot convert
AtConversionFailure(w) ==
    /\ wpc[w] = "entry"
    /\ ~CurrentEntry(w).isDir
    /\ ExtensionFilter(FullPath(CurrentEntry(w).node))
    /\ utf8_len(CurrentEntry(w).node) = 0

\* C12: a file whose conversion fails is never in a buffer nor in the sink;
\* the step that deals with it leaves the worker's buffer and file_count as
\* they are and takes the worker to the next child of the same directory (to
\* the decrement after the last child); its directory is decremented for at
\* most once, and exactly once when its worker is through with it.
C12_ConversionFailureSkipsOneFile ==
    /\ [](\A f \in Files :
            ~Tree[f].converts =>
                /\ ~InSink(f) /\ ~InSomeBuffer(f)
                /\ decrements[Tree[f].parent] <= 1
                /\ Finished(Tree[f].parent) => decrements[Tree[f].parent] = 1)
    /\ [][\A w \in Workers :
            (AtConversionFailure(w) /\ <<wpc[w], entry_i[w]>>' # <<wpc[w], entry_i[w]>>) =>
                /\ local_out_buf'[w] = local_out_buf[w]
                /\ file_count' = file_count
                /\ current_dir'[w] = current_dir[w]
                /\ IF entry_i[w] < Len(Listing(current_dir[w]))
                   THEN wpc'[w] = "entry" /\ entry_i'[w] = entry_i[w] + 1
                   ELSE wpc'[w] = "decrement"]_vars

\* C12 witness: a worker has passed the file whose conversion fails and is
\* at the next file of the same directory, nothing counted for the first
C12_Witness ==
    \E w \in Workers :
        /\ wpc[w] = "entry"
        /\ current_dir[w] = 4
        /\ CurrentEntry(w).node = 9
        /\ file_types = <<>>
        /\ NUM_THREADS = 1
        /\ file_count = 2

\* C13: when fopen has failed (out_fp is still null past it), main has
\* returned 1 and nothing else has happened: the queue is empty and nothing
\* was ever enqueued, both counters are 0, no worker was launched and the
\* sink holds nothing.
C13_OutputOpenFailureIsFatal ==
    (cpc \notin {"parse", "fopen"} /\ out_fp = "null") =>
        /\ cpc = "exit"
        /\ exit_code = "failure"
        /\ dir_queue = <<>>
        /\ enqueued = {}
        /\ active_dir_count = 0
        /\ file_count = 0
        /\ sink = <<>>
        /\ \A w \in Workers : wpc[w] = "unborn"

\* C13 witness: a run in which fopen failed has ended
C13_Witness ==
    /\ cpc = "exit"
    /\ exit_code = "failure"
    /\ out_fp = "null"
    /\ PREFIX = <<>>

\* C14: workers are launched only after seeding enqueued a directory; when it
\* enqueued none, main goes from seeding to its return: no worker is ever
\* launched, the sink holds the encoding marker and the header and nothing
\* else, both counters are 0, and at the return the sink is closed and the
\* outcome is success.
C14_NothingSeededEndsCleanly ==
    /\ cpc \in {"launch", "poll", "wait_for", "store_done", "notify_all", "join", "fclose", "Done"}
          => enqueued # {}
    /\ (cpc \in {"no_dirs", "exit"} /\ out_fp # "null") =>
          /\ enqueued = {}
          /\ dir_queue = <<>>
          /\ active_dir_count = 0
          /\ file_count = 0
          /\ \A w \in Workers : wpc[w] = "unborn"
          /\ sink = <<BomLine, HeaderLine>>
    /\ (cpc = "exit" /\ out_fp # "null") =>
          /\ out_fp = "closed"
          /\ exit_code = "success"

\* C14 witness: the root was listed to its end, no folder matched the
\* prefix, and main has returned
C14_Witness ==
    /\ cpc = "exit"
    /\ exit_code = "success"
    /\ PREFIX = <<"x">>
    /\ seed_i = Len(Listing(0))
    /\ out_fp = "closed"

\* Directory d is reached by the traversal, as the tree and the configuration
\* alone decide it: a top-level folder that passes the seeding test, or a
\* subdirectory that passes the workers' test below a reached directory that
\* opens.
RECURSIVE Traversed(_)
Traversed(d) ==
    IF Tree[d].parent = 0
    THEN SeedFilter(Tree[d].cFileName)
    ELSE /\ Traversed(Tree[d].parent)
         /\ Tree[Tree[d].parent].opens
         /\ SubdirFilter(FullPath(d))

\* the files the tree and the configuration select
ExpectedFiles ==
    {f \in Files :
        /\ Tree[f].parent # 0
        /\ Traversed(Tree[f].parent)
        /\ Tree[Tree[f].parent].opens
        /\ Wanted(f)}

\* C15: in every run that reaches Done the path lines of the sink are, as a
\* multiset, one line for each file that the tree and the configuration
\* select: the same in every run, whatever the interleaving, the number of
\* workers and the worker that dequeued each directory.
C15_SinkMultisetFixedByTreeAndConfig ==
    cpc = "Done" =>
        /\ Len(SinkNodes) = Cardinality(ExpectedFiles)
        /\ {SinkNodes[k] : k \in 1..Len(SinkNodes)} = ExpectedFiles

\* C15 witness: a run of several workers is over in which a file of the
\* second top-level folder was written before a file of the first, the
\* reverse of the order a single worker writes them in
C15_Witness ==
    /\ cpc = "Done"
    /\ NUM_THREADS > 1
    /\ \E i, j \in 1..Len(SinkNodes) : i < j /\ SinkNodes[i] = 11 /\ SinkNodes[j] = 6

\* C16 as stated: after parsing, --buffer=10000 has made
\* OUTPUT_BUFFER_FLUSH_COUNT 10000 lines and no --buffer has left it at the
\* default of 5000; a worker is at a flush only with a buffer of at least
\* OUTPUT_BUFFER_FLUSH_COUNT * 256 bytes.
C16_BufferOptionCountsLines ==
    cpc # "parse" =>
        /\ buffer_arg = ReadmeBufferArg => OUTPUT_BUFFER_FLUSH_COUNT = ReadmeBufferArg
        /\ buffer_arg = NoBufferArg => OUTPUT_BUFFER_FLUSH_COUNT = DefaultFlushCount
        /\ \A w \in Workers :
              wpc[w] = "flush" =>
                  BufSize(local_out_buf[w]) >= OUTPUT_BUFFER_FLUSH_COUNT * BytesPerLine

\* C17: in every state active_dir_count is the number of directories in the
\* queue plus the number of workers that have dequeued a directory and not
\* yet decremented for it, and is never negative; a directory is pending at
\* one place only: once in the queue, or with one worker.  (A push and its
\* increment, made together under q_m, are one step.)
C17_CounterEqualsPendingDirectories ==
    /\ active_dir_count = Len(dir_queue) + Cardinality({w \in Workers : InProgress(w)})
    /\ active_dir_count >= 0
    /\ \A i, j \in 1..Len(dir_queue) : i # j => dir_queue[i] # dir_queue[j]
    /\ \A w \in Workers : InProgress(w) =>
          /\ ~InQueue(current_dir[w])
          /\ \A v \in Workers : (v # w /\ InProgress(v)) => current_dir[v] # current_dir[w]

\* C17 witness: two workers are each enumerating a directory while two more
\* directories wait in the queue
C17_Witness ==
    /\ Cardinality({w \in Workers : InProgress(w)}) = 2
    /\ Len(dir_queue) = 2
    /\ active_dir_count = 4

\* the coordinator has left its polling loop
PollingOver == cpc \in {"store_done", "notify_all", "join", "fclose", "Done"}

\* C18: once seeding is over, active_dir_count is 0 only when the queue is
\* empty and no worker is between a dequeue and its decrement; and from the
\* moment the coordinator has read counter == 0 with an empty queue, in every
\* later state the queue is empty, no worker holds a directory and the
\* counter is 0: nothing is outstanding and nothing is enqueued any more.
C18_ZeroCounterMeansNoWork ==
    /\ (AfterSeeding /\ active_dir_count = 0) =>
          /\ dir_queue = <<>>
          /\ \A w \in Workers : ~InProgress(w)
    /\ PollingOver =>
          /\ active_dir_count = 0
          /\ dir_queue = <<>>
          /\ \A w \in Workers : ~InProgress(w)
          /\ \A d \in enqueued : Finished(d)

\* C18 witness: the coordinator has just left the loop after two workers
\* traversed all five directories of the tree
C18_Witness ==
    /\ cpc = "store_done"
    /\ NUM_THREADS > 1
    /\ enqueued = Dirs
    /\ \E w \in Workers : wpc[w] = "blocked"

\* the step is made by a thread that holds q_m: it locks and unlocks q_m
\* within the step (q_m is free before it), or it is the step of the worker
\* that already holds q_m past its wait
StepHoldsQueueLock ==
    \/ q_m = NoThread
    \/ /\ q_m \in Workers
       /\ wpc[q_m] = "locked"
       /\ wpc'[q_m] # "locked"

\* C19 as stated: every step that changes dir_queue or active_dir_count is
\* made by a thread that holds q_m, so never while another thread holds it.
C19_QueueAndCounterMutatedUnderLock ==
    [][(dir_queue' # dir_queue \/ active_dir_count' # active_dir_count)
            => StepHoldsQueueLock]_vars

\* worker w is inside flush_buffer, past the lock
Writing(w) == wpc[w] \in {"write", "final_write"}

\* C20: a worker inside flush_buffer holds out_m, so at most one worker is
\* there at a time; and once a worker exists, every step that changes the
\* sink is made by the worker that holds out_m inside flush_buffer and
\* appends that worker's whole buffer, in one piece, to what the sink held.
C20_SinkWrittenUnderOutputLock ==
    /\ [](\A w \in Workers : Writing(w) => out_m = w)
    /\ [][(sink' # sink /\ \E v \in Workers : wpc[v] # "unborn") =>
            \E w \in Workers :
                /\ Writing(w)
                /\ out_m = w
                /\ sink' = sink \o [k \in 1..Len(local_out_buf[w]) |->
                                        PathLine(local_out_buf[w][k])]
                /\ out_m' = NoThread]_vars

\* C20 witness: one worker is writing its buffer to a sink that already
\* holds path lines while another worker waits for out_m with its own
C20_Witness ==
    \E w, v \in Workers :
        /\ w # v
        /\ wpc[w] = "write"
        /\ out_m = w
        /\ wpc[v] \in {"flush", "final_lock"}
        /\ local_out_buf[v] # <<>>
        /\ Len(SinkNodes) > 0

\* C21: no worker holds q_m and out_m together: q_m is held only inside the
\* wait and up to the pop, out_m only inside flush_buffer, and a worker that
\* locks q_m for a push is at a directory entry, where it holds no lock.
C21_LocksNeverHeldTogether ==
    [](\A w \in Workers :
          /\ ~(q_m = w /\ out_m = w)
          /\ q_m = w => wpc[w] \in {"pred_false", "locked"}
          /\ out_m = w => Writing(w)
          /\ wpc[w] \in {"entry", "wait"} => (q_m # w /\ out_m # w))

\* C21 witness: both locks are held at once, by two different workers
C21_Witness ==
    /\ q_m \in Workers
    /\ out_m \in Workers
    /\ q_m # out_m

\* C22: a queue entry goes to one worker and is enumerated at most once: the
\* queue holds no directory twice, two workers between a pop and the
\* decrement never hold the same directory, a directory a worker holds is no
\* longer in the queue, a directory still in the queue or just popped has
\* not been opened or decremented for; and a worker past the wait that does
\* not leave the loop finds the queue non-empty.
C22_EntryDequeuedByOneWorker ==
    [](/\ \A i, j \in 1..Len(dir_queue) : dir_queue[i] = dir_queue[j] => i = j
       /\ \A d \in Dirs : InQueue(d) => (d \in enqueued /\ d \notin opened /\ decrements[d] = 0)
       /\ \A w \in Workers :
             /\ InProgress(w) =>
                   /\ current_dir[w] \in enqueued
                   /\ ~InQueue(current_dir[w])
                   /\ \A v \in Workers \ {w} : InProgress(v) => current_dir[v] # current_dir[w]
             /\ wpc[w] = "open" =>
                   (current_dir[w] \notin opened /\ decrements[current_dir[w]] = 0)
             /\ (wpc[w] = "locked" /\ ~(done /\ dir_queue = <<>>)) => dir_queue # <<>>)

\* C22 witness: two workers hold two different directories while a third
\* directory waits in the queue
C22_Witness ==
    /\ InProgress(1) /\ InProgress(2)
    /\ current_dir[1] # current_dir[2]
    /\ dir_queue # <<>>

\* worker w has left the loop of directory_processing_worker
LeftLoop(w) == wpc[w] \in {"final_flush", "final_lock", "final_write", "exited"}

\* C23: done is true exactly from the coordinator's store after its
\* completion check onwards; whenever done is true the queue is empty, the
\* counter is 0 and no worker holds a directory; and a worker that has left
\* its loop did so with done true, hence with nothing queued or in progress.
C23_DoneMeansNothingLeft ==
    [](/\ done <=> cpc \in {"notify_all", "join", "fclose", "Done"}
       /\ done =>
             /\ dir_queue = <<>>
             /\ active_dir_count = 0
             /\ \A w \in Workers : ~InProgress(w)
       /\ \A w \in Workers : LeftLoop(w) => done)

\* C23 witness: after a scan that opened directories, one worker has left
\* its loop while another is still inside it
C23_Witness ==
    /\ done
    /\ opened # {}
    /\ \E w, v \in Workers :
          /\ LeftLoop(w)
          /\ wpc[v] \in {"wait", "pred_false", "blocked", "locked"}

\* C24: the sink is opened and begins with the byte-order mark and the
\* header before any worker exists, and every later line is a path line; it
\* is closed only when no worker is left that has not returned, each with
\* its buffer flushed; and once closed it is never written or reopened.
C24_SinkLifeOrdered ==
    /\ [](/\ (\E w \in Workers : wpc[w] # "unborn") =>
               (out_fp \in {"open", "closed"} /\ Len(sink) >= 2)
          /\ sink # <<>> =>
               /\ Len(sink) >= 2
               /\ sink[1] = BomLine
               /\ sink[2] = HeaderLine
               /\ \A k \in 3..Len(sink) : sink[k].kind = "path"
          /\ out_fp = "closed" =>
               \A w \in Workers :
                   /\ wpc[w] \in {"unborn", "exited"}
                   /\ local_out_buf[w] = <<>>
                   /\ (cpc = "Done" /\ w <= NUM_THREADS) => wpc[w] = "exited")
    /\ [][out_fp = "closed" => (sink' = sink /\ out_fp' = "closed")]_vars

\* C24 witness: the sink is closed after two workers have written path lines
\* to it and returned
C24_Witness ==
    /\ out_fp = "closed"
    /\ NUM_THREADS = 2
    /\ \A w \in 1..2 : wpc[w] = "exited"
    /\ Len(sink) > 3

\* worker w has just handled a file that it recorded: it is past the size
\* test, and past the flush if the test asked for one
JustRecorded(w) ==
    /\ wpc[w] \in {"entry", "decrement"}
    /\ Handled(w) >= 1
    /\ LET e == Listing(current_dir[w])[Handled(w)]
       IN  /\ ~e.isDir
           /\ ExtensionFilter(FullPath(e.node))
           /\ utf8_len(e.node) > 0

\* C25 as stated: after a worker has handled a file its buffer holds fewer
\* than OUTPUT_BUFFER_FLUSH_COUNT * 256 bytes; a worker that has returned
\* has an empty buffer, and at Done no buffer holds a path.
C25_BufferBelowThreshold ==
    /\ \A w \in Workers :
          /\ JustRecorded(w) => BufSize(local_out_buf[w]) < FlushThreshold
          /\ wpc[w] = "exited" => local_out_buf[w] = <<>>
    /\ cpc = "Done" => \A n \in Files : ~InSomeBuffer(n)

\* C25 amended: outside the steps between the append and the flush, a
\* worker's buffer holds fewer than OUTPUT_BUFFER_FLUSH_COUNT * 256 bytes or
\* is empty (with a threshold of 0 every file is flushed at once and the
\* empty buffer holds 0 bytes, not fewer); a worker that has returned has an
\* empty buffer, and at Done no buffer holds a path.
C25_BufferBelowThresholdOrEmpty ==
    [](/\ \A w \in Workers :
             /\ wpc[w] \notin {"fetch_add", "flush", "write"} =>
                   \/ local_out_buf[w] = <<>>
                   \/ BufSize(local_out_buf[w]) < FlushThreshold
             /\ wpc[w] = "exited" => local_out_buf[w] = <<>>
       /\ cpc = "Done" => \A n \in Files : ~InSomeBuffer(n))

\* C25 witness: with a threshold of 3 lines and no worker out of its loop
\* yet, the sink holds path lines (a flush at the threshold) and a worker
\* that has just recorded a further file holds it in its buffer
C25_Witness ==
    /\ OUTPUT_BUFFER_FLUSH_COUNT = 3
    /\ Len(sink) > 2
    /\ \A u \in Workers : ~LeftLoop(u)
    /\ \E w \in Workers :
          /\ JustRecorded(w)
          /\ local_out_buf[w] # <<>>

\* the last component of a path: what follows its last separator
LastName(path) ==
    LET seps == {i \in 1..Len(path) : path[i] = "\\"}
    IN  IF seps = {} THEN path
        ELSE SubSeq(path, (CHOOSE i \in seps : \A k \in seps : i >= k) + 1, Len(path))

\* C26 as stated, for fast_scan4.cpp: no directory named "." or ".." is ever
\* enqueued, at seeding or by a worker, and with an empty prefix no worker
\* enumerates the root itself or the root's parent.
C26_SelfReferencesNeverEnqueued ==
    /\ \A e \in enqueued : ~IsDotOrDotDot(LastName(Scan4Path(e)))
    /\ PREFIX = <<>> => \A e \in opened : e.node # 0

\* C27: under fair scheduling a directory that is in the queue is eventually
\* popped by a worker that then opens it (or fails to open it and gives it
\* up), whoever the notify_one after the push has woken.
C27_QueuedDirectoryEventuallyEnumerated ==
    \A d \in Dirs :
        InQueue(d) ~> (~InQueue(d) /\ (d \in opened \/ decrements[d] = 1))

\* C27 witness: one directory is in the queue, the push has been notified,
\* and a worker is still blocked in the wait: the notification went to the
\* coordinator
C27_Witness ==
    /\ Len(dir_queue) = 1
    /\ \E w \in Workers : w \in waiting /\ wpc[w] = "blocked"
    /\ \E v \in Workers : wpc[v] = "entry" /\ Handled(v) >= 1
                           /\ Listing(current_dir[v])[Handled(v)].node = dir_queue[1]
    /\ cpc = "poll"

\* the number of lines held in the buffers of workers 1..w
RECURSIVE BufferedLinesUpTo(_)
BufferedLinesUpTo(w) ==
    IF w = 0 THEN 0 ELSE Len(local_out_buf[w]) + BufferedLinesUpTo(w - 1)

BufferedLines == BufferedLinesUpTo(MaxThreads)

\* the workers between the append of a line and file_count.fetch_add
Uncounted == {w \in Workers : wpc[w] = "fetch_add"}

\* C28: file_count, plus one for every worker that has appended a line and
\* not yet counted it, is the number of path lines in the sink plus the
\* number of lines in the workers' buffers; and every step that changes
\* file_count is the fetch_add of one worker that has just appended a line,
\* and adds exactly 1.
C28_CounterEqualsRecordedLines ==
    /\ [](file_count + Cardinality(Uncounted) = Len(SinkNodes) + BufferedLines)
    /\ [][file_count' # file_count =>
            /\ file_count' = file_count + 1
            /\ \E w \in Uncounted :
                  /\ wpc'[w] # "fetch_add"
                  /\ local_out_buf[w] # <<>>
                  /\ \A v \in Workers \ {w} : wpc'[v] = wpc[v]]_vars

\* C28 witness: lines are in the sink and in a buffer, and a worker is
\* between an append and its increment
C28_Witness ==
    /\ Len(SinkNodes) > 0
    /\ BufferedLines > 1
    /\ Uncounted # {}
    /\ file_count > 0

====
